---- MODULE Spec2Model ----
(***************************************************************************)
(* Model of linkblog-email-connector: the email() handler of src/index.ts  *)
(* (sender check, rate limit, body parser, file generator, repository      *)
(* publisher, replies) and the validators of src/security.ts.              *)
(*                                                                         *)
(* A JavaScript string is modelled as a sequence of one-character strings, *)
(* so that trimming, splitting, replacing and validating are computed      *)
(* character by character as the code computes them.                       *)
(***************************************************************************)
EXTENDS Integers, Sequences, FiniteSets, TLC

(***************************************************************************)
(* Bounds of the model.                                                    *)
(***************************************************************************)
MaxLen == 4        \* longest string handed to sanitizeText in SpecSanitize
MaxPieces == 4     \* most pieces of an email text in SpecParse
MaxCalls == 5      \* most checkRateLimit calls in SpecRate
MaxReq == 2        \* largest maxRequests argument in SpecRate
MaxWin == 2        \* largest windowMs argument in SpecRate
MaxClock == 3      \* latest clock reading in SpecRate
MaxTicks == 2      \* most clock advances in Spec
MaxArrivals == 6    \* most emails delivered in SpecConc
MaxElapsed == 1     \* most rate-limit windows that run out in SpecConc

(***************************************************************************)
(* Character classes and the String.prototype methods the code uses.       *)
(***************************************************************************)
LowerChars ==
  <<"a", "b", "c", "d", "e", "f", "g", "h", "i", "j", "k", "l", "m",
    "n", "o", "p", "q", "r", "s", "t", "u", "v", "w", "x", "y", "z">>

UpperChars ==
  <<"A", "B", "C", "D", "E", "F", "G", "H", "I", "J", "K", "L", "M",
    "N", "O", "P", "Q", "R", "S", "T", "U", "V", "W", "X", "Y", "Z">>

DigitChars == <<"0", "1", "2", "3", "4", "5", "6", "7", "8", "9">>

Range(f) == {f[i] : i \in DOMAIN f}

LowerSet == Range(LowerChars)

UpperSet == Range(UpperChars)

DigitSet == Range(DigitChars)

\* the characters String.prototype.trim and the regex class \s remove
IsWs(c) == c \in {" ", "\t", "\n", "\r"}

LowerChar(c) ==
  IF c \in UpperSet
  THEN LowerChars[CHOOSE i \in DOMAIN UpperChars : UpperChars[i] = c]
  ELSE c

toLowerCase(s) == [i \in DOMAIN s |-> LowerChar(s[i])]

RECURSIVE trimStart(_)
trimStart(s) ==
  IF s # <<>> /\ IsWs(Head(s)) THEN trimStart(Tail(s)) ELSE s

RECURSIVE trimEnd(_)
trimEnd(s) ==
  IF s # <<>> /\ IsWs(s[Len(s)]) THEN trimEnd(SubSeq(s, 1, Len(s) - 1)) ELSE s

trim(s) == trimEnd(trimStart(s))

startsWith(s, p) == Len(p) <= Len(s) /\ SubSeq(s, 1, Len(p)) = p

endsWith(s, p) ==
  Len(p) <= Len(s) /\ SubSeq(s, Len(s) - Len(p) + 1, Len(s)) = p

includes(s, p) ==
  \E i \in 1..(Len(s) - Len(p) + 1) : SubSeq(s, i, i + Len(p) - 1) = p

\* s.replace(/[...]/g, ''): every character of the class cs removed
removeChars(s, cs) == SelectSeq(s, LAMBDA c : c \notin cs)

\* index of the first character of s that is in cs, 0 when there is none
firstIndexIn(s, cs) ==
  LET hits == {i \in DOMAIN s : s[i] \in cs}
  IN  IF hits = {} THEN 0 ELSE CHOOSE i \in hits : \A j \in hits : i <= j

\* s.indexOf(c) + 1 for a character c
indexOf(s, c) == firstIndexIn(s, {c})

\* the indices of s in order: <<1, ..., Len(s)>>
indices(s) == [i \in DOMAIN s |-> i]

\* s.split(c) for a one-character separator: the pieces between separators
split(s, c) ==
  LET seps == SelectSeq(indices(s), LAMBDA i : s[i] = c)
  IN  [k \in 1..(Len(seps) + 1) |->
         SubSeq(s, IF k = 1 THEN 1 ELSE seps[k - 1] + 1,
                   IF k > Len(seps) THEN Len(s) ELSE seps[k] - 1)]

\* parts.join(c)
RECURSIVE join(_, _)
join(parts, c) ==
  IF parts = <<>> THEN <<>>
  ELSE IF Len(parts) = 1 THEN parts[1]
  ELSE parts[1] \o <<c>> \o join(Tail(parts), c)

\* list.slice(0, n)
slice0(list, n) == SubSeq(list, 1, IF Len(list) < n THEN Len(list) ELSE n)

\* length of the longest prefix of s whose characters are all in cs
RECURSIVE runLength(_, _)
runLength(s, cs) ==
  IF s # <<>> /\ Head(s) \in cs THEN 1 + runLength(Tail(s), cs) ELSE 0

(***************************************************************************)
(* src/security.ts                                                         *)
(***************************************************************************)
NewlineChars == {"\r", "\n"}

\* the backtick character, which a TLA+ string literal cannot hold
Backtick == "[backtick]"

\* text.replace(/[\r\n]{3,}/g, '\n\n'): each maximal run of three or more
\* CR/LF characters becomes two LF, shorter runs are kept
collapseNewlines(s) ==
  LET nl(i) == i >= 1 /\ s[i] \in NewlineChars
      inLongRun(i) ==
        nl(i) /\ \E a \in (i - 2)..i :
           a >= 1 /\ a + 2 <= Len(s) /\ \A j \in a..(a + 2) : nl(j)
      placeInRun(i) == IF ~nl(i - 1) THEN 1 ELSE IF ~nl(i - 2) THEN 2 ELSE 3
      kept == SelectSeq(indices(s), LAMBDA i : ~inLongRun(i) \/ placeInRun(i) <= 2)
  IN  [k \in DOMAIN kept |-> IF inLongRun(kept[k]) THEN "\n" ELSE s[kept[k]]]

\* sanitizeText with the quantifier {2,} in place of {3,}
collapseNewlinesFrom2(s) ==
  LET nl(i) == i >= 1 /\ s[i] \in NewlineChars
      inLongRun(i) ==
        nl(i) /\ \E a \in (i - 1)..i :
           a >= 1 /\ a + 1 <= Len(s) /\ \A j \in a..(a + 1) : nl(j)
      placeInRun(i) == IF ~nl(i - 1) THEN 1 ELSE IF ~nl(i - 2) THEN 2 ELSE 3
      kept == SelectSeq(indices(s), LAMBDA i : ~inLongRun(i) \/ placeInRun(i) <= 2)
  IN  [k \in DOMAIN kept |-> IF inLongRun(kept[k]) THEN "\n" ELSE s[kept[k]]]

sanitizeTextFrom2(text) ==
  IF text = <<>> THEN <<>>
  ELSE trim(collapseNewlinesFrom2(
         removeChars(removeChars(text, {"<", ">"}), {Backtick, "$"})))

sanitizeText(text) ==
  IF text = <<>> THEN <<>>
  ELSE trim(collapseNewlines(
         removeChars(removeChars(text, {"<", ">"}), {Backtick, "$"})))

HostEndChars == {"/", "\\", "?", "#", ":"}

\* the host of `afterSlashes', which ends before the character at hostEnd
\* (the port, path, query or fragment) or runs to the end when hostEnd = 0
hostUpTo(afterSlashes, hostEnd) ==
  toLowerCase(SubSeq(afterSlashes, 1,
                     IF hostEnd = 0 THEN Len(afterSlashes) ELSE hostEnd - 1))

\* the host of what follows the slashes of a URL
hostIn(afterSlashes) ==
  hostUpTo(afterSlashes, firstIndexIn(afterSlashes, HostEndChars))

\* the host of `rest', the part of a URL after the scheme and its colon
hostOf(rest) ==
  hostIn(SubSeq(rest, runLength(rest, {"/", "\\"}) + 1, Len(rest)))

\* the URL object for a scheme of `schemeLen' characters and a host
urlOf(schemeLen, scheme, host) ==
  LET special == scheme \in {<<"h", "t", "t", "p">>, <<"h", "t", "t", "p", "s">>}
  IN  [ok |-> /\ schemeLen > 0
              /\ scheme[1] \in LowerSet
              /\ \A i \in DOMAIN scheme :
                   scheme[i] \in LowerSet \cup DigitSet \cup {"+", "-", "."}
              /\ (special => host # <<>>)
              /\ (special => \A i \in DOMAIN host : ~IsWs(host[i])),
       protocol |-> scheme \o <<":">>,
       hostname |-> IF special THEN host ELSE <<>>]

\* the URL object of url, whose first ":" is at index `colon' (0: none)
urlAt(url, colon) ==
  urlOf(colon - 1, toLowerCase(SubSeq(url, 1, colon - 1)),
        hostOf(SubSeq(url, colon + 1, Len(url))))

\* new URL(url): the scheme up to the first ":" and the host that follows the
\* slashes, up to the port, path, query or fragment.  ok is FALSE where the
\* constructor throws (no scheme, or an http(s) URL without a host).
parseUrl(url) == urlAt(url, indexOf(url, ":"))

\* hostname.match(/^172\.(1[6-9]|2\d|3[01])\./)
isPrivate172(hostname) ==
  /\ Len(hostname) >= 7
  /\ SubSeq(hostname, 1, 4) = <<"1", "7", "2", ".">>
  /\ hostname[7] = "."
  /\ \/ hostname[5] = "1" /\ hostname[6] \in {"6", "7", "8", "9"}
     \/ hostname[5] = "2" /\ hostname[6] \in DigitSet
     \/ hostname[5] = "3" /\ hostname[6] \in {"0", "1"}

\* the protocol and hostname checks of validateUrl on the parsed URL u
urlAllowed(u) ==
  /\ u.ok
  /\ u.protocol \in {<<"h", "t", "t", "p", ":">>,
                     <<"h", "t", "t", "p", "s", ":">>}
  /\ ~ \/ u.hostname = <<"l", "o", "c", "a", "l", "h", "o", "s", "t">>
       \/ u.hostname = <<"1", "2", "7", ".", "0", ".", "0", ".", "1">>
       \/ startsWith(u.hostname, <<"1", "9", "2", ".", "1", "6", "8", ".">>)
       \/ startsWith(u.hostname, <<"1", "0", ".">>)
       \/ isPrivate172(u.hostname)
       \/ u.hostname = <<"0", ".", "0", ".", "0", ".", "0">>
       \/ u.hostname = <<":", ":", "1">>
       \/ startsWith(u.hostname, <<"f", "e", "8", "0", ":">>)
       \/ startsWith(u.hostname, <<"f", "c", "0", "0", ":">>)
       \/ startsWith(u.hostname, <<"f", "d", "0", "0", ":">>)

validateUrl(url) == url # <<>> /\ urlAllowed(parseUrl(url))

\* validateTags without the final slice(0, 10)
validateTagsUncapped(tags) ==
  LET nonEmpty == SelectSeq(tags, LAMBDA t : Len(t) > 0)
      cleaned == [i \in DOMAIN nonEmpty |-> sanitizeText(nonEmpty[i])]
  IN  SelectSeq(cleaned, LAMBDA t : Len(t) > 0 /\ Len(t) <= 50)

\* tags.filter(nonempty).map(sanitizeText).filter(1..50 chars).slice(0, 10)
validateTags(tags) ==
  LET nonEmpty == SelectSeq(tags, LAMBDA t : Len(t) > 0)
      cleaned == [i \in DOMAIN nonEmpty |-> sanitizeText(nonEmpty[i])]
      kept == SelectSeq(cleaned, LAMBDA t : Len(t) > 0 /\ Len(t) <= 50)
  IN  slice0(kept, 10)

BranchChars == LowerSet \cup UpperSet \cup DigitSet \cup {".", "_", "/", "-"}

validateBranchName(name) ==
  /\ name # <<>>
  /\ \A i \in DOMAIN name : name[i] \in BranchChars
  /\ Len(name) <= 250
  /\ ~startsWith(name, <<".">>)
  /\ ~endsWith(name, <<".">>)
  /\ ~includes(name, <<".", ".">>)
  /\ ~includes(name, <<"/", "/">>)

S_linksDir ==
  <<"c", "o", "n", "t", "e", "n", "t", "/", "p", "o", "s", "t", "s", "/",
    "l", "i", "n", "k", "s", "/">>

\* validateFilePath without the length limit
validateFilePathAnyLength(path) ==
  /\ path # <<>>
  /\ ~includes(path, <<".", ".", "/">>)
  /\ ~includes(path, <<".", ".", "\\">>)
  /\ ~startsWith(path, <<"/">>)
  /\ startsWith(path, S_linksDir)
  /\ endsWith(path, <<".", "m", "d">>)

validateFilePath(path) ==
  /\ path # <<>>
  /\ ~includes(path, <<".", ".", "/">>)
  /\ ~includes(path, <<".", ".", "\\">>)
  /\ ~startsWith(path, <<"/">>)
  /\ startsWith(path, S_linksDir)
  /\ endsWith(path, <<".", "m", "d">>)
  /\ Len(path) <= 200

sanitizeCommitMessage(message) ==
  IF message = <<>>
  THEN <<"A", "u", "t", "o", "m", "a", "t", "e", "d", " ",
         "c", "o", "m", "m", "i", "t">>
  ELSE slice0(sanitizeText(message), 100)

\* /^[^\s@]+@[^\s@]+\.[^\s@]+$/.test(email) && email.length <= 254
validateEmail(email) ==
  /\ email # <<>>
  /\ \A i \in DOMAIN email : ~IsWs(email[i])
  /\ Cardinality({i \in DOMAIN email : email[i] = "@"}) = 1
  /\ LET at == indexOf(email, "@")
     IN  /\ at > 1
         /\ \E dot \in (at + 2)..(Len(email) - 1) : email[dot] = "."
  /\ Len(email) <= 254

\* requestCounts: identifier -> {count, resetTime}; an identifier that is not
\* in the map has no record
NoRecord == [count |-> 0, resetTime |-> -1]

\* checkRateLimit with the limit test record.count > maxRequests
checkRateLimitOffByOne(counts, identifier, maxRequests, windowMs, t) ==
  LET record == counts[identifier]
  IN  IF record = NoRecord \/ t > record.resetTime
      THEN [allowed |-> TRUE,
            counts |-> [counts EXCEPT ![identifier] =
                          [count |-> 1, resetTime |-> t + windowMs]]]
      ELSE IF record.count > maxRequests
      THEN [allowed |-> FALSE, counts |-> counts]
      ELSE [allowed |-> TRUE,
            counts |-> [counts EXCEPT ![identifier] =
                          [count |-> record.count + 1,
                           resetTime |-> record.resetTime]]]

\* checkRateLimit(identifier, maxRequests, windowMs) at clock reading t on map
\* counts: the returned value and the map after the call
checkRateLimit(counts, identifier, maxRequests, windowMs, t) ==
  LET record == counts[identifier]
  IN  IF record = NoRecord \/ t > record.resetTime
      THEN [allowed |-> TRUE,
            counts |-> [counts EXCEPT ![identifier] =
                          [count |-> 1, resetTime |-> t + windowMs]]]
      ELSE IF record.count >= maxRequests
      THEN [allowed |-> FALSE, counts |-> counts]
      ELSE [allowed |-> TRUE,
            counts |-> [counts EXCEPT ![identifier] =
                          [count |-> record.count + 1,
                           resetTime |-> record.resetTime]]]

(***************************************************************************)
(* String literals of src/index.ts.                                         *)
(***************************************************************************)
E_contentMissing ==
  <<"E", "m", "a", "i", "l", " ", "c", "o", "n", "t", "e", "n", "t", " ",
     "i", "s", " ", "m", "i", "s", "s", "i", "n", "g", " ", "o", "r", " ",
     "i", "n", "v", "a", "l", "i", "d">>

E_subjectMissing ==
  <<"E", "m", "a", "i", "l", " ", "s", "u", "b", "j", "e", "c", "t", " ",
     "i", "s", " ", "m", "i", "s", "s", "i", "n", "g", " ", "o", "r", " ",
     "i", "n", "v", "a", "l", "i", "d">>

E_bodyRequired ==
  <<"E", "m", "a", "i", "l", " ", "b", "o", "d", "y", " ", "i", "s", " ",
     "r", "e", "q", "u", "i", "r", "e", "d">>

E_unsafeUrl ==
  <<"I", "n", "v", "a", "l", "i", "d", " ", "o", "r", " ", "u", "n", "s",
     "a", "f", "e", " ", "U", "R", "L", " ", "p", "r", "o", "v", "i", "d",
     "e", "d">>

E_noValidTag ==
  <<"A", "t", " ", "l", "e", "a", "s", "t", " ", "o", "n", "e", " ", "v",
     "a", "l", "i", "d", " ", "t", "a", "g", " ", "i", "s", " ", "r", "e",
     "q", "u", "i", "r", "e", "d">>

E_urlRequired ==
  <<"U", "R", "L", " ", "i", "s", " ", "r", "e", "q", "u", "i", "r", "e",
     "d">>

E_tagRequired ==
  <<"A", "t", " ", "l", "e", "a", "s", "t", " ", "o", "n", "e", " ", "t",
     "a", "g", " ", "i", "s", " ", "r", "e", "q", "u", "i", "r", "e", "d">>

E_bodyContentRequired ==
  <<"B", "o", "d", "y", " ", "c", "o", "n", "t", "e", "n", "t", " ", "i",
     "s", " ", "r", "e", "q", "u", "i", "r", "e", "d">>

E_titleRequired ==
  <<"T", "i", "t", "l", "e", " ", "i", "s", " ", "r", "e", "q", "u", "i",
     "r", "e", "d">>

E_noFilename ==
  <<"U", "n", "a", "b", "l", "e", " ", "t", "o", " ", "g", "e", "n", "e",
     "r", "a", "t", "e", " ", "v", "a", "l", "i", "d", " ", "f", "i", "l",
     "e", "n", "a", "m", "e", " ", "f", "r", "o", "m", " ", "t", "i", "t",
     "l", "e">>

E_badGeneratedPath ==
  <<"G", "e", "n", "e", "r", "a", "t", "e", "d", " ", "f", "i", "l", "e",
     " ", "p", "a", "t", "h", " ", "i", "s", " ", "i", "n", "v", "a", "l",
     "i", "d">>

E_invalidFilePath ==
  <<"I", "n", "v", "a", "l", "i", "d", " ", "f", "i", "l", "e", " ", "p",
     "a", "t", "h">>

E_badBranchName ==
  <<"G", "e", "n", "e", "r", "a", "t", "e", "d", " ", "b", "r", "a", "n",
     "c", "h", " ", "n", "a", "m", "e", " ", "i", "s", " ", "i", "n", "v",
     "a", "l", "i", "d">>

E_noUniqueBranch ==
  <<"U", "n", "a", "b", "l", "e", " ", "t", "o", " ", "g", "e", "n", "e",
     "r", "a", "t", "e", " ", "u", "n", "i", "q", "u", "e", " ", "b", "r",
     "a", "n", "c", "h", " ", "n", "a", "m", "e">>

E_publishFailed ==
  <<"F", "a", "i", "l", "e", "d", " ", "t", "o", " ", "c", "r", "e", "a",
     "t", "e", " ", "G", "i", "t", "H", "u", "b", " ", "P", "R">>

E_badPrUrl ==
  <<"I", "n", "v", "a", "l", "i", "d", " ", "P", "R", " ", "U", "R", "L",
     " ", "g", "e", "n", "e", "r", "a", "t", "e", "d">>

M_failedToProcess ==
  <<"F", "a", "i", "l", "e", "d", " ", "t", "o", " ", "p", "r", "o", "c",
     "e", "s", "s", " ", "e", "m", "a", "i", "l", " ", "c", "o", "n", "t",
     "e", "n", "t">>

M_unexpected ==
  <<"A", "n", " ", "u", "n", "e", "x", "p", "e", "c", "t", "e", "d", " ",
     "e", "r", "r", "o", "r", " ", "o", "c", "c", "u", "r", "r", "e", "d">>

M_errorPrefix ==
  <<"E", "r", "r", "o", "r", " ", "e", "n", "c", "o", "u", "n", "t", "e",
     "r", "e", "d", " ", "i", "n", " ", "p", "r", "o", "c", "e", "s", "s",
     "i", "n", "g", " ", "t", "h", "e", " ", "e", "m", "a", "i", "l", ":",
     " ">>

M_successPrefix ==
  <<"S", "u", "c", "c", "e", "s", "s", "f", "u", "l", "l", "y", " ", "p",
     "r", "o", "c", "e", "s", "s", "e", "d", " ", "e", "m", "a", "i", "l",
     ".", " ", "V", "i", "e", "w", " ", "P", "R", " ", "a", "t", " ">>

F_head ==
  <<"+", "+", "+", "\n", "t", "i", "t", "l", "e", " ", "=", " ", "\"", "L",
     "i", "n", "k", ":", " ">>

F_date ==
  <<"\"", "\n", "d", "a", "t", "e", " ", "=", " ", "\"">>

F_taxonomies ==
  <<"\"", "\n", "\n", "[", "t", "a", "x", "o", "n", "o", "m", "i", "e", "s",
     "]", "\n", "t", "y", "p", "e", " ", "=", " ", "[", "\"", "p", "o", "s",
     "t", "s", "\"", "]", "\n", "t", "a", "g", "s", " ", "=", " ">>

F_heading ==
  <<"\n", "+", "+", "+", "\n", "\n", "#", "#", "#", " ", "[">>

(***************************************************************************)
(* src/index.ts: thrown values.  A thrown Error carries its message and,   *)
(* for a rejected repository call, the HTTP status; a thrown value that is *)
(* not an Error has isError = FALSE.                                       *)
(***************************************************************************)
NoError == [isError |-> FALSE, message |-> <<>>, status |-> -1]

Error(message) == [isError |-> TRUE, message |-> message, status |-> 0]

(***************************************************************************)
(* src/index.ts: parse                                                     *)
(***************************************************************************)
NoPost == [url |-> <<>>, tags |-> <<>>, body |-> <<>>]

\* lines 108-112: the url line, whose trimmed value is trimmedUrl
setUrl(st, trimmedUrl) ==
  IF ~validateUrl(trimmedUrl)
  THEN [st EXCEPT !.thrown = Error(E_unsafeUrl)]
  ELSE [st EXCEPT !.url = trimmedUrl]

\* lines 115-118: data.tags = validateTags(rawTags), which must not be empty
setTags(st, tags) ==
  IF Len(tags) = 0
  THEN [st EXCEPT !.tags = tags, !.thrown = Error(E_noValidTag)]
  ELSE [st EXCEPT !.tags = tags]

\* value.split(',').map(tag => tag.trim())
rawTagsOf(commaParts) == [i \in DOMAIN commaParts |-> trim(commaParts[i])]

\* lines 106-120: a line with the given key and value
parseKeyValue(st, key, value) ==
  IF key # <<>> /\ value # <<>>
  THEN IF key = <<"u", "r", "l">> THEN setUrl(st, trim(value))
       ELSE IF key = <<"t", "a", "g", "s">>
       THEN setTags(st, validateTags(rawTagsOf(split(value, ","))))
       ELSE st
  ELSE st

\* lines 102-104: key = parts.shift()?.toLowerCase(), value = parts.join(' ')
parseParts(st, parts) ==
  parseKeyValue(st, toLowerCase(parts[1]), join(Tail(parts), " "))

\* the loop body without the `continue' of line 94: a line after the marker is
\* pushed to bodyLines and then read as a key and a value as well
parseLineKeysInBody(st, line) ==
  IF ~st.isBody /\ toLowerCase(trim(line)) = <<"b", "o", "d", "y">>
  THEN [st EXCEPT !.isBody = TRUE]
  ELSE parseParts(IF st.isBody
                  THEN [st EXCEPT !.bodyLines = Append(st.bodyLines, line)]
                  ELSE st,
                  split(line, " "))

\* one iteration of the for loop of parse over `line'; st holds isBody,
\* bodyLines, data.url, data.tags and the error thrown so far, if any
parseLine(st, line) ==
  IF st.isBody
  THEN [st EXCEPT !.bodyLines = Append(st.bodyLines, line)]
  ELSE IF toLowerCase(trim(line)) = <<"b", "o", "d", "y">>
  THEN [st EXCEPT !.isBody = TRUE]
  ELSE parseParts(st, split(line, " "))

RECURSIVE parseLines(_, _)
parseLines(st, lines) ==
  IF lines = <<>> \/ st.thrown # NoError THEN st
  ELSE parseLines(parseLine(st, Head(lines)), Tail(lines))

\* parse throws e
parseThrows(e) == [ok |-> FALSE, data |-> NoPost, thrown |-> e]

\* lines 125-136: the required fields of data
requireFields(data) ==
  IF data.url = <<>> THEN parseThrows(Error(E_urlRequired))
  ELSE IF Len(data.tags) = 0 THEN parseThrows(Error(E_tagRequired))
  ELSE IF trim(data.body) = <<>> THEN parseThrows(Error(E_bodyContentRequired))
  ELSE [ok |-> TRUE, data |-> data, thrown |-> NoError]

\* the end of the loop in state st: the error thrown inside it, or line 123
\* and the checks of the required fields
afterLines(st) ==
  IF st.thrown # NoError THEN parseThrows(st.thrown)
  ELSE requireFields([url |-> st.url, tags |-> st.tags,
                      body |-> sanitizeText(trim(join(st.bodyLines, "\n")))
                               \o <<"\n">>])

\* parse(body): ok with the LinkPost it returns, or the Error it throws
parse(body) ==
  IF body = <<>> THEN parseThrows(Error(E_bodyRequired))
  ELSE afterLines(parseLines([isBody |-> FALSE, bodyLines |-> <<>>,
                              url |-> <<>>, tags |-> <<>>, thrown |-> NoError],
                             split(sanitizeText(body), "\n")))

(***************************************************************************)
(* src/index.ts: generateFile                                              *)
(***************************************************************************)
twoDigits(n) == <<DigitChars[(n \div 10) + 1], DigitChars[(n % 10) + 1]>>

\* new Date(t).toISOString().split('T')[0] for a clock reading t (ms since
\* the epoch) of January 1970, where the model's clock stays
isoDate(t) ==
  <<"1", "9", "7", "0", "-", "0", "1", "-">> \o twoDigits((t \div 86400000) + 1)

\* s.replace(/\s+/g, '-')
RECURSIVE replaceWhitespaceRuns(_)
replaceWhitespaceRuns(s) ==
  LET ws == {" ", "\t", "\n", "\r"}
      i == firstIndexIn(s, ws)
  IN  IF i = 0 THEN s
      ELSE SubSeq(s, 1, i - 1) \o <<"-">>
           \o replaceWhitespaceRuns(
                SubSeq(s, i + runLength(SubSeq(s, i, Len(s)), ws), Len(s)))

\* JSON.stringify of one string
RECURSIVE jsonEscape(_)
jsonEscape(s) ==
  IF s = <<>> THEN <<>>
  ELSE (CASE Head(s) = "\"" -> <<"\\", "\"">>
          [] Head(s) = "\\" -> <<"\\", "\\">>
          [] Head(s) = "\n" -> <<"\\", "n">>
          [] Head(s) = "\r" -> <<"\\", "r">>
          [] Head(s) = "\t" -> <<"\\", "t">>
          [] OTHER -> <<Head(s)>>) \o jsonEscape(Tail(s))

\* JSON.stringify(tags)
jsonStringify(tags) ==
  <<"[">> \o join([i \in DOMAIN tags |-> <<"\"">> \o jsonEscape(tags[i]) \o <<"\"">>], ",")
  \o <<"]">>

SlugChars == LowerSet \cup DigitSet \cup {"-"}

\* the file generateFile throws e instead of
noFile(e) == [ok |-> FALSE, content |-> <<>>, fileName |-> <<>>, thrown |-> e]

\* lines 147-152: the slug of the sanitized title
fileTitleSlugOf(sanitizedTitle) ==
  SelectSeq(replaceWhitespaceRuns(
              join(slice0(split(toLowerCase(sanitizedTitle), " "), 4), " ")),
            LAMBDA c : c \in SlugChars)

\* lines 161-171: the content of the post
contentOf(sanitizedTitle, today, data) ==
  F_head \o sanitizedTitle \o F_date \o today \o F_taxonomies
  \o jsonStringify(data.tags) \o F_heading \o sanitizedTitle
  \o <<"]", "(">> \o data.url \o <<")", "\n">> \o data.body

\* lines 175-180: the generated path is validated, the file returned
checkedFile(content, fileName) ==
  IF ~validateFilePath(fileName) THEN noFile(Error(E_badGeneratedPath))
  ELSE [ok |-> TRUE, content |-> content, fileName |-> fileName,
        thrown |-> NoError]

\* lines 154-180, for the slug of the title
fileForSlug(sanitizedTitle, today, fileTitleSlug, data) ==
  IF fileTitleSlug = <<>> THEN noFile(Error(E_noFilename))
  ELSE checkedFile(contentOf(sanitizedTitle, today, data),
                   S_linksDir \o today \o <<"-">> \o fileTitleSlug
                   \o <<".", "m", "d">>)

\* lines 142-180, for the sanitized title
fileForTitle(sanitizedTitle, today, data) ==
  IF sanitizedTitle = <<>> THEN noFile(Error(E_titleRequired))
  ELSE fileForSlug(sanitizedTitle, today, fileTitleSlugOf(sanitizedTitle), data)

\* generateFile(title, data) at clock reading t: ok with content and
\* fileName, or the Error it throws
generateFile(title, data, t) ==
  fileForTitle(sanitizeText(title), isoDate(t), data)

(***************************************************************************)
(* Inputs of the model: sender addresses, decoded emails, and the results   *)
(* the external collaborators (MIME decoder, repository API, reply          *)
(* transport) may return.                                                   *)
(***************************************************************************)
AllowedSender ==
  <<"a", "@", "b", ".", "c">>

OtherSender ==
  <<"x", "@", "b", ".", "c">>

MalformedSender ==
  <<"a", "@", "b">>

T_good ==
  <<"u", "r", "l", " ", "h", "t", "t", "p", ":", "/", "/", "a", ".", "b",
     "\n", "t", "a", "g", "s", " ", "x", ",", " ", "y", "\n", "b", "o", "d",
     "y", "\n", "h", "i">>

T_noUrl ==
  <<"t", "a", "g", "s", " ", "x", "\n", "b", "o", "d", "y", "\n", "h", "i">>

Sub_good ==
  <<"M", "y", " ", "F", "i", "n", "d">>

Sub_dollar ==
  <<"$">>

Sub_bang ==
  <<"!">>

PrUrl_good ==
  <<"h", "t", "t", "p", "s", ":", "/", "/", "g", ".", "h", "/", "p", "/",
     "1">>

PrUrl_bad ==
  <<"g", ".", "h", "/", "p", "/", "1">>

S_headsMaster ==
  <<"h", "e", "a", "d", "s", "/", "m", "a", "s", "t", "e", "r">>

S_linkSlash ==
  <<"l", "i", "n", "k", "/">>

S_linkPost ==
  <<"l", "i", "n", "k", "-", "p", "o", "s", "t">>

S_notFound ==
  <<"N", "o", "t", " ", "F", "o", "u", "n", "d">>

S_serverError ==
  <<"S", "e", "r", "v", "e", "r", " ", "E", "r", "r", "o", "r">>

S_refExists ==
  <<"R", "e", "f", "e", "r", "e", "n", "c", "e", " ", "a", "l", "r", "e",
     "a", "d", "y", " ", "e", "x", "i", "s", "t", "s">>

S_mimeError ==
  <<"I", "n", "v", "a", "l", "i", "d", " ", "M", "I", "M", "E">>

S_sendError ==
  <<"S", "e", "n", "d", " ", "f", "a", "i", "l", "e", "d">>

\* a subject of 190 characters: its slug makes the file path exceed 200
Sub_long == [i \in 1..190 |-> "a"]

\* env.LINKS_ALLOWED_SENDER is AllowedSender
Senders == {AllowedSender, OtherSender, MalformedSender}

\* PostalMime.parse(message.raw) results: text and subject, <<>> where missing
Emails ==
  {[text |-> T_good, subject |-> Sub_good],
   [text |-> T_noUrl, subject |-> Sub_good],
   [text |-> <<>>, subject |-> Sub_good],
   [text |-> T_good, subject |-> <<>>],
   [text |-> T_good, subject |-> Sub_dollar],
   [text |-> T_good, subject |-> Sub_bang],
   [text |-> T_good, subject |-> Sub_long]}

\* refRes.data.object.sha of the default branch
Shas == {"sha1", "sha2"}

\* prRes.data.html_url
PrUrls == {PrUrl_good, PrUrl_bad}

\* a rejected repository call: an Error with the response status
RemoteError(status) ==
  [isError |-> TRUE,
   message |-> CASE status = 404 -> S_notFound
                 [] status = 422 -> S_refExists
                 [] OTHER -> S_serverError,
   status |-> status]

\* the rejections any repository call may end in, whatever the repository holds
RemoteFailures == {RemoteError(404), RemoteError(500)}

\* a value thrown by PostalMime.parse that is not an Error
NonErrorThrown == [isError |-> FALSE, message |-> S_mimeError, status |-> 0]

(***************************************************************************)
(* State.                                                                  *)
(***************************************************************************)
VARIABLES
  now,            \* Date.now()
  requestCounts,  \* security.ts: the process-wide rate-limit map
  branches,       \* refs/heads/* that exist in the repository
  inv,            \* the email() invocations in flight or finished
  rlMax, rlWin,   \* SpecRate: the maxRequests and windowMs arguments
  rlHist,         \* SpecRate: the checkRateLimit calls made so far
  sanIn, sanOut,  \* SpecSanitize: argument and result of sanitizeText
  parseIn,        \* SpecParse: the email text
  parseOut,       \* SpecParse: what parse returned or threw
  handed          \* SpecParse: the LinkPosts generateFile has received

vars == <<now, requestCounts, branches, inv, rlMax, rlWin, rlHist,
          sanIn, sanOut, parseIn, parseOut, handed>>

mainVars == <<now, requestCounts, branches, inv>>

rateVars == <<rlMax, rlWin, rlHist>>

sanVars == <<sanIn, sanOut>>

parseVars == <<parseIn, parseOut, handed>>

\* invocation slots: Spec runs the email() invocations one after another
Inv == {1}

\* index.ts:39 checkRateLimit(message.from, 5, 300000)
RateLimitMax == 5

RateWindowMs == 300000

NoMessage == [kind |-> "none", to |-> <<>>, data |-> <<>>]

\* an invocation slot before an email is delivered to it
Idle ==
  [pc |-> "idle", from |-> <<>>, rate |-> "unchecked", reject |-> "",
   parserRan |-> FALSE, fileName |-> <<>>, fileContent |-> <<>>,
   commitTitle |-> <<>>, baseSha |-> "", candidate |-> <<>>, branch |-> <<>>,
   inProbeTry |-> FALSE, log |-> <<>>, calls |-> 0, cause |-> NoError,
   thrown |-> NoError,
   outbox |-> NoMessage, replies |-> <<>>, outcome |-> "running"]

(***************************************************************************)
(* src/index.ts: replies and the catch block of email()                    *)
(***************************************************************************)
\* makeSuccessReply: the EmailMessage, or the Error thrown for a bad PR URL
makeSuccessReply(from, prUrl) ==
  IF ~validateUrl(prUrl)
  THEN [ok |-> FALSE, message |-> NoMessage, thrown |-> Error(E_badPrUrl)]
  ELSE [ok |-> TRUE,
        message |-> [kind |-> "success", to |-> from,
                     data |-> M_successPrefix \o prUrl],
        thrown |-> NoError]

makeErrorReply(from, errorMessage) ==
  [kind |-> "error", to |-> from,
   data |-> M_errorPrefix \o sanitizeText(errorMessage)]

\* the catch block passing the caught error's own message on
rawErrorMessage(error) == error.message

\* error instanceof Error ? 'Failed to process email content'
\*                        : 'An unexpected error occurred'
safeErrorMessage(error) ==
  IF error.isError THEN M_failedToProcess ELSE M_unexpected

\* the catch block of email(): compose the error reply and await its sending
catch(s, error) ==
  [s EXCEPT !.pc = "replyError", !.thrown = error,
            !.outbox = makeErrorReply(s.from, safeErrorMessage(error))]

(***************************************************************************)
(* src/index.ts: createGithubPR, createBranchAndFile, createPullRequest    *)
(***************************************************************************)
\* a repository call as issued: its arguments, and its result once settled
\* ("ok", the sha that git.getRef of heads/master returned, or the status of
\* the rejection as a string)
Call(op, ref, sha, path) ==
  [op |-> op, ref |-> ref, sha |-> sha, path |-> path, result |-> "pending"]

issue(s, call) ==
  [s EXCEPT !.log = Append(s.log, call), !.calls = s.calls + 1]

\* the awaited call of s returns or rejects
settle(s, result) == [s EXCEPT !.log[Len(s.log)].result = result]

\* the outer catch of createGithubPR: any error becomes the generic one,
\* which email() catches
publishFailed(s, error) ==
  catch([s EXCEPT !.cause = error], Error(E_publishFailed))

\* createBranchAndFile up to its first await: git.createRef at baseSha
createBranchAndFile(s, branchName, inTry) ==
  issue([s EXCEPT !.pc = "createRef", !.branch = branchName,
                  !.inProbeTry = inTry],
        Call("createRef", branchName, s.baseSha, <<>>))

\* a rejection of createRef, createOrUpdateFileContents or pulls.create: inside
\* the try of the existence probe the inner catch sees it first and, on status
\* 404, starts createBranchAndFile for newBranchName; otherwise it reaches the
\* outer catch
writeRejected(s, error) ==
  IF s.inProbeTry /\ error.status = 404
  THEN createBranchAndFile(s, s.candidate, FALSE)
  ELSE publishFailed(s, error)

\* parts[3], or undefined (here the empty string) when there is none
fourthOf(parts) == IF Len(parts) >= 4 THEN parts[4] ELSE <<>>

\* index of the first ".md" in part, 0 when there is none
firstMdIn(part) ==
  IF includes(part, <<".", "m", "d">>)
  THEN CHOOSE i \in 1..(Len(part) - 2) :
         /\ SubSeq(part, i, i + 2) = <<".", "m", "d">>
         /\ \A j \in 1..(i - 1) : SubSeq(part, j, j + 2) # <<".", "m", "d">>
  ELSE 0

\* part without the three characters at index `at' (0: part unchanged)
withoutMdAt(part, at) ==
  IF at = 0 THEN part
  ELSE SubSeq(part, 1, at - 1) \o SubSeq(part, at + 3, Len(part))

\* part?.replace('.md', ''): the first ".md" removed
replaceMd(part) == withoutMdAt(part, firstMdIn(part))

\* replaced || 'link-post'
orLinkPost(replaced) == IF replaced = <<>> THEN S_linkPost ELSE replaced

\* fileName.split('/')[3]?.replace('.md', '') || 'link-post'
branchSuffixOf(fileName) ==
  orLinkPost(replaceMd(fourthOf(split(fileName, "/"))))

Base36Chars == DigitChars \o LowerChars

\* n.toString(36)
RECURSIVE toBase36(_)
toBase36(n) ==
  IF n < 36 THEN <<Base36Chars[n + 1]>>
  ELSE toBase36(n \div 36) \o <<Base36Chars[(n % 36) + 1]>>

\* createGithubPR up to its first await: validate the path, sanitize the
\* title, issue git.getRef for heads/master
createGithubPR(s, fileName, fileContent, commitTitle) ==
  IF ~validateFilePath(fileName)
  THEN catch(s, Error(E_invalidFilePath))
  ELSE issue([s EXCEPT !.pc = "getBaseRef", !.fileName = fileName,
                       !.fileContent = fileContent,
                       !.commitTitle = sanitizeCommitMessage(commitTitle)],
             Call("getRef", S_headsMaster, "", <<>>))

\* lines 62-63, with the file generateFile returned or the Error it threw
publishFile(ran, email, file) ==
  IF ~file.ok THEN catch(ran, file.thrown)
  ELSE createGithubPR(ran, file.fileName, file.content, email.subject)

\* lines 61-63, with the LinkPost parse returned or the Error it threw
generateAndPublish(ran, email, parsed, t) ==
  IF ~parsed.ok THEN catch(ran, parsed.thrown)
  ELSE publishFile(ran, email, generateFile(email.subject, parsed.data, t))

\* email() lines 52-63, run when PostalMime.parse has returned `email' at
\* clock reading t
processEmail(s, email, t) ==
  IF email.text = <<>> THEN catch(s, Error(E_contentMissing))
  ELSE IF email.subject = <<>> THEN catch(s, Error(E_subjectMissing))
  ELSE generateAndPublish([s EXCEPT !.parserRan = TRUE], email,
                          parse(email.text), t)

(***************************************************************************)
(* src/index.ts: email().  One action per stretch of code between awaits:  *)
(* an invocation yields only where it awaits an external call.             *)
(***************************************************************************)
\* email() returns or rejects: its locals are gone, what remains is what it
\* did: setReject, the number of repository calls issued, the replies sent,
\* an uncaught rejection
finished(s, outcome) ==
  [Idle EXCEPT !.pc = "done", !.from = s.from, !.rate = s.rate,
               !.reject = s.reject, !.parserRan = s.parserRan,
               !.calls = s.calls, !.replies = s.replies,
               !.outcome = outcome]

\* the sender check without the comparison with the allowed sender
senderAllowedByFormat(from) == validateEmail(from)

\* validateEmail(message.from) && message.from === env.LINKS_ALLOWED_SENDER
senderAllowed(from) == validateEmail(from) /\ from = AllowedSender

rejected(s, reason) == finished([s EXCEPT !.reject = reason], "rejected")

\* arrive with a rate-limit map that is read when the invocation starts and
\* written back when it next yields: the write is lost whenever another
\* invocation is suspended
arriveLosingUpdates(i, from) ==
  /\ inv[i].pc \in {"idle", "done"}
  /\ LET s == [Idle EXCEPT !.from = from]
         limit == checkRateLimit(requestCounts, from, RateLimitMax,
                                 RateWindowMs, now)
         suspended == \E j \in DOMAIN inv : j # i /\ inv[j].pc \notin {"idle", "done"}
     IN  IF ~senderAllowed(from)
         THEN /\ inv' = [inv EXCEPT ![i] = rejected(s, "Address not allowed")]
              /\ UNCHANGED requestCounts
         ELSE /\ requestCounts' = IF suspended THEN requestCounts ELSE limit.counts
              /\ inv' = [inv EXCEPT ![i] =
                   IF ~limit.allowed
                   THEN rejected([s EXCEPT !.rate = "denied"],
                                 "Rate limit exceeded")
                   ELSE [s EXCEPT !.rate = "allowed", !.pc = "mimeParse"]]
  /\ UNCHANGED <<now, branches, sanVars, parseVars>>

\* lines 30-49 on the invocation's own state and the rate-limit map: an email
\* from `from' is delivered to slot i; sender check and rate limit run before
\* the first await
arrive(i, from) ==
  /\ inv[i].pc \in {"idle", "done"}
  /\ LET s == [Idle EXCEPT !.from = from]
         limit == checkRateLimit(requestCounts, from, RateLimitMax,
                                 RateWindowMs, now)
     IN  IF ~senderAllowed(from)
         THEN /\ inv' = [inv EXCEPT ![i] = rejected(s, "Address not allowed")]
              /\ UNCHANGED requestCounts
         ELSE /\ requestCounts' = limit.counts
              /\ inv' = [inv EXCEPT ![i] =
                   IF ~limit.allowed
                   THEN rejected([s EXCEPT !.rate = "denied"],
                                 "Rate limit exceeded")
                   ELSE [s EXCEPT !.rate = "allowed", !.pc = "mimeParse"]]
  /\ UNCHANGED <<now, branches, sanVars, parseVars>>

\* lines 30-49: an email from `from' is delivered to slot i
Receive(i, from) == arrive(i, from) /\ UNCHANGED rateVars

\* line 49 settles: PostalMime.parse throws, or returns the decoded email and
\* lines 52-63 run up to the await of the first repository call
MimeParsed(i) ==
  /\ inv[i].pc = "mimeParse"
  /\ \/ \E e \in {Error(S_mimeError), NonErrorThrown} :
          inv' = [inv EXCEPT ![i] = catch(inv[i], e)]
     \/ \E email \in Emails :
          inv' = [inv EXCEPT ![i] = processEmail(inv[i], email, now)]
  /\ UNCHANGED <<now, requestCounts, branches, rateVars, sanVars, parseVars>>

\* line 200 settles: the tip of master, or a rejection
GetBaseRefDone(i) ==
  /\ inv[i].pc = "getBaseRef"
  /\ \/ \E e \in RemoteFailures :
          inv' = [inv EXCEPT ![i] = publishFailed(settle(inv[i], ToString(e.status)), e)]
     \/ \E sha \in Shas :
          \E newBranchName \in {S_linkSlash \o branchSuffixOf(inv[i].fileName)} :
          LET s == [settle(inv[i], sha) EXCEPT !.baseSha = sha]
          IN  inv' = [inv EXCEPT ![i] =
                IF ~validateBranchName(newBranchName)
                THEN publishFailed(s, Error(E_badBranchName))
                ELSE issue([s EXCEPT !.pc = "probe",
                                     !.candidate = newBranchName],
                           Call("getRef", <<"h", "e", "a", "d", "s", "/">>
                                          \o newBranchName, "", <<>>))]
  /\ UNCHANGED <<now, requestCounts, branches, rateVars, sanVars, parseVars>>

\* line 218 settles: the branch exists, or 404, or another rejection
ProbeDone(i) ==
  /\ inv[i].pc = "probe"
  /\ \/ /\ inv[i].candidate \in branches
        /\ LET s == settle(inv[i], "ok")
               timestamp == toBase36(now)
               uniqueBranchName == s.candidate \o <<"-">> \o timestamp
           IN  inv' = [inv EXCEPT ![i] =
                 IF ~validateBranchName(uniqueBranchName)
                 THEN publishFailed(s, Error(E_noUniqueBranch))
                 ELSE createBranchAndFile(s, uniqueBranchName, TRUE)]
     \/ /\ inv[i].candidate \notin branches
        /\ inv' = [inv EXCEPT ![i] =
             createBranchAndFile(settle(inv[i], "404"), inv[i].candidate, FALSE)]
     \/ inv' = [inv EXCEPT ![i] =
          publishFailed(settle(inv[i], "500"), RemoteError(500))]
  /\ UNCHANGED <<now, requestCounts, branches, rateVars, sanVars, parseVars>>

\* line 257 settles: the ref is created, unless it exists or the call fails;
\* then createOrUpdateFileContents is issued
CreateRefDone(i) ==
  /\ inv[i].pc = "createRef"
  /\ \/ /\ inv[i].branch \notin branches
        /\ branches' = branches \cup {inv[i].branch}
        /\ inv' = [inv EXCEPT ![i] =
             issue([settle(inv[i], "ok") EXCEPT !.pc = "createFile"],
                   Call("createFile", inv[i].branch, "", inv[i].fileName))]
     \/ /\ inv[i].branch \in branches
        /\ inv' = [inv EXCEPT ![i] =
             writeRejected(settle(inv[i], "422"), RemoteError(422))]
        /\ UNCHANGED branches
     \/ /\ \E e \in RemoteFailures :
             inv' = [inv EXCEPT ![i] = writeRejected(settle(inv[i], ToString(e.status)), e)]
        /\ UNCHANGED branches
  /\ UNCHANGED <<now, requestCounts, rateVars, sanVars, parseVars>>

\* line 265 settles; createBranchAndFile returns and pulls.create is issued
CreateFileDone(i) ==
  /\ inv[i].pc = "createFile"
  /\ \/ inv' = [inv EXCEPT ![i] =
          issue([settle(inv[i], "ok") EXCEPT !.pc = "createPull"],
                Call("createPull", inv[i].branch, "", <<>>))]
     \/ \E e \in RemoteFailures :
          inv' = [inv EXCEPT ![i] = writeRejected(settle(inv[i], ToString(e.status)), e)]
  /\ UNCHANGED <<now, requestCounts, branches, rateVars, sanVars, parseVars>>

\* line 285 settles; createGithubPR returns the PR URL, the success reply is
\* composed (lines 65-66) and its sending awaited
CreatePullDone(i) ==
  /\ inv[i].pc = "createPull"
  /\ \/ \E prUrl \in PrUrls :
          \E reply \in {makeSuccessReply(inv[i].from, prUrl)} :
          LET s == settle(inv[i], "ok")
          IN  inv' = [inv EXCEPT ![i] =
                IF ~reply.ok THEN catch(s, reply.thrown)
                ELSE [s EXCEPT !.pc = "replySuccess",
                               !.outbox = reply.message]]
     \/ \E e \in RemoteFailures :
          inv' = [inv EXCEPT ![i] = writeRejected(settle(inv[i], ToString(e.status)), e)]
  /\ UNCHANGED <<now, requestCounts, branches, rateVars, sanVars, parseVars>>

\* line 66 settles: the success reply is sent, or message.reply rejects and
\* the catch block runs
ReplySuccessDone(i) ==
  /\ inv[i].pc = "replySuccess"
  /\ \/ inv' = [inv EXCEPT ![i] =
          finished([inv[i] EXCEPT !.replies = Append(@, inv[i].outbox)],
                   "repliedSuccess")]
     \/ inv' = [inv EXCEPT ![i] = catch(inv[i], Error(S_sendError))]
  /\ UNCHANGED <<now, requestCounts, branches, rateVars, sanVars, parseVars>>

\* line 73 settles: the error reply is sent, or message.reply rejects inside
\* the catch block and the rejection leaves email()
ReplyErrorDone(i) ==
  /\ inv[i].pc = "replyError"
  /\ \/ inv' = [inv EXCEPT ![i] =
          finished([inv[i] EXCEPT !.replies = Append(@, inv[i].outbox)],
                   "repliedError")]
     \/ inv' = [inv EXCEPT ![i] = finished(inv[i], "uncaught")]
  /\ UNCHANGED <<now, requestCounts, branches, rateVars, sanVars, parseVars>>

\* time passes
Tick ==
  /\ now < MaxTicks * RateWindowMs
  /\ now' = now + RateWindowMs
  /\ UNCHANGED <<requestCounts, branches, inv, rateVars, sanVars, parseVars>>

EmptyCounts == [id \in Senders |-> NoRecord]

MainIdle ==
  /\ now = 0
  /\ requestCounts = EmptyCounts
  /\ branches = {}
  /\ inv = [i \in Inv |-> Idle]

RateIdle == rlMax = 0 /\ rlWin = 0 /\ rlHist = <<>>

SanIdle == sanIn = <<>> /\ sanOut = [done |-> FALSE, value |-> <<>>]

NoResult == [done |-> FALSE, ok |-> FALSE, data |-> NoPost, thrown |-> NoError]

ParseIdle == parseIn = <<>> /\ parseOut = NoResult /\ handed = <<>>

Init == MainIdle /\ RateIdle /\ SanIdle /\ ParseIdle

Next ==
  \/ \E i \in Inv, from \in Senders : Receive(i, from)
  \/ \E i \in Inv : MimeParsed(i)
  \/ \E i \in Inv : GetBaseRefDone(i)
  \/ \E i \in Inv : ProbeDone(i)
  \/ \E i \in Inv : CreateRefDone(i)
  \/ \E i \in Inv : CreateFileDone(i)
  \/ \E i \in Inv : CreatePullDone(i)
  \/ \E i \in Inv : ReplySuccessDone(i)
  \/ \E i \in Inv : ReplyErrorDone(i)
  \/ Tick

Spec == Init /\ [][Next]_vars

(***************************************************************************)
(* SpecRate: checkRateLimit called with arbitrary maxRequests and windowMs *)
(* for two identifiers while the clock advances.                           *)
(***************************************************************************)
RateIds == {AllowedSender, OtherSender}

RateInit ==
  /\ rlMax \in 0..MaxReq
  /\ rlWin \in 0..MaxWin
  /\ rlHist = <<>>
  /\ MainIdle /\ SanIdle /\ ParseIdle

\* one call checkRateLimit(id, rlMax, rlWin); rlHist records the clock
\* reading, the returned value and the identifier's record before and after
RateCall(id) ==
  /\ Len(rlHist) < MaxCalls
  /\ LET r == checkRateLimit(requestCounts, id, rlMax, rlWin, now)
     IN  /\ requestCounts' = r.counts
         /\ rlHist' = Append(rlHist,
              [id |-> id, t |-> now, allowed |-> r.allowed,
               before |-> requestCounts[id], after |-> r.counts[id]])
  /\ UNCHANGED <<now, branches, inv, rlMax, rlWin, sanVars, parseVars>>

RateTick ==
  /\ now < MaxClock
  /\ now' = now + 1
  /\ UNCHANGED <<requestCounts, branches, inv, rateVars, sanVars, parseVars>>

RateNext == (\E id \in RateIds : RateCall(id)) \/ RateTick

SpecRate == RateInit /\ [][RateNext]_vars

(***************************************************************************)
(* SpecSanitize: sanitizeText applied to every string of at most MaxLen    *)
(* characters over SanChars.                                               *)
(***************************************************************************)
SanChars == {"a", " ", "\n", "\r", "<", "$", Backtick}

StringsUpTo(chars, n) == UNION {[1..k -> chars] : k \in 0..n}

SanInit ==
  /\ sanIn \in StringsUpTo(SanChars, MaxLen)
  /\ sanOut = [done |-> FALSE, value |-> <<>>]
  /\ MainIdle /\ RateIdle /\ ParseIdle

Sanitize ==
  /\ ~sanOut.done
  /\ sanOut' = [done |-> TRUE, value |-> sanitizeText(sanIn)]
  /\ UNCHANGED <<mainVars, rateVars, sanIn, parseVars>>

SpecSanitize == SanInit /\ [][Sanitize]_vars

(***************************************************************************)
(* SpecParse: lines 61-62 of email() on every text of at most MaxPieces    *)
(* pieces drawn from ParsePieces, joined by newlines.                      *)
(***************************************************************************)
L_url ==
  <<"u", "r", "l", " ", "h", "t", "t", "p", ":", "/", "/", "a", ".", "b">>

L_urlLocal ==
  <<"U", "R", "L", " ", " ", "h", "t", "t", "p", ":", "/", "/", "l", "o",
     "c", "a", "l", "h", "o", "s", "t">>

L_tags ==
  <<"t", "a", "g", "s", " ", "a", ",", "b", ",", "c", ",", "d", ",", "e",
     ",", "f", ",", "g", ",", "h", ",", "i", ",", "j", ",", "k", ",", " ",
     "<", "b", ">", ",", " ", ",", "a", "a", "a", "a", "a", "a", "a", "a",
     "a", "a", "a", "a", "a", "a", "a", "a", "a", "a", "a", "a", "a", "a",
     "a", "a", "a", "a", "a", "a", "a", "a", "a", "a", "a", "a", "a", "a",
     "a", "a", "a", "a", "a", "a", "a", "a", "a", "a", "a", "a", "a", "a",
     "a">>

L_tagsEmpty ==
  <<"t", "a", "g", "s", " ", "<", ",", "$">>

L_bodyText ==
  <<" ", "B", "o", "d", "y", " ", "\n", "h", "i">>

\* the pieces an email text is made of: url and tags lines, the body marker
\* with a line of text under it, a blank line
ParsePieces == {L_url, L_urlLocal, L_tags, L_tagsEmpty, L_bodyText, <<>>}

ParseInit ==
  /\ \E n \in 1..MaxPieces : \E ls \in [1..n -> ParsePieces] :
       parseIn = join(ls, "\n")
  /\ parseOut = NoResult
  /\ handed = <<>>
  /\ MainIdle /\ RateIdle /\ SanIdle

\* const parsed = parse(email.text); generateFile(email.subject, parsed):
\* generateFile is reached, and receives the LinkPost, only if parse returned
ParseText ==
  /\ ~parseOut.done
  /\ \E parsed \in {parse(parseIn)} :
         /\ parseOut' = [done |-> TRUE, ok |-> parsed.ok, data |-> parsed.data,
                         thrown |-> parsed.thrown]
         /\ handed' = IF parsed.ok THEN <<parsed.data>> ELSE <<>>
  /\ UNCHANGED <<mainVars, rateVars, sanVars, parseIn>>

SpecParse == ParseInit /\ [][ParseText]_vars

(***************************************************************************)
(* SpecConc: email() invocations interleaved on one instance.  Two slots   *)
(* hold invocations of the allowed sender that are suspended at their      *)
(* awaits while others are delivered and resume; rlHist records every      *)
(* rate check made.  The collaborators answer without failure, so what     *)
(* varies is the order in which the invocations run.                       *)
(***************************************************************************)
ConcInv == {1, 2}

\* an invocation whose awaited calls were answered without failure: the MIME
\* decoder returned the email with subject Sub_good, the repository answered
\* every call from what it holds (404 for a branch it lacks, 422 for a ref it
\* has), the PR URL is usable and message.reply sent the reply
Calm(s) ==
  /\ s.commitTitle \in {<<>>, Sub_good}
  /\ s.baseSha \in {"", "sha1"}
  /\ s.thrown \in {NoError, Error(E_publishFailed)}
  /\ s.outcome # "uncaught"
  /\ \A k \in DOMAIN s.log :
       \/ s.log[k].result \in {"pending", "ok", "sha1", "422"}
       \/ k = 2 /\ s.log[k].result = "404"

ConcInit ==
  /\ now = 0
  /\ requestCounts = EmptyCounts
  /\ branches = {}
  /\ inv = [i \in ConcInv |-> Idle]
  /\ RateIdle /\ SanIdle /\ ParseIdle

\* lines 30-49: an email of the allowed sender is delivered to slot i; rlHist
\* records the clock reading, whether the invocation got past the rate check,
\* and the sender's record before and after
ConcReceive(i) ==
  /\ Len(rlHist) < MaxArrivals
  /\ arrive(i, AllowedSender)
  /\ rlHist' = Append(rlHist,
       [id |-> AllowedSender, t |-> now,
        allowed |-> inv'[i].pc = "mimeParse",
        before |-> requestCounts[AllowedSender],
        after |-> requestCounts'[AllowedSender]])
  /\ UNCHANGED <<rlMax, rlWin>>

\* the call that invocation i awaits settles and i runs to its next await
Resume(i) ==
  /\ \/ MimeParsed(i)
     \/ GetBaseRefDone(i)
     \/ ProbeDone(i)
     \/ CreateRefDone(i)
     \/ CreateFileDone(i)
     \/ CreatePullDone(i)
     \/ ReplySuccessDone(i)
     \/ ReplyErrorDone(i)
  /\ Calm(inv'[i])

\* time passes until the window that started now has run out
WindowElapses ==
  /\ now < MaxElapsed * (RateWindowMs + 1)
  /\ now' = now + RateWindowMs + 1
  /\ UNCHANGED <<requestCounts, branches, inv, rateVars, sanVars, parseVars>>

ConcNext ==
  \/ \E i \in ConcInv : ConcReceive(i)
  \/ \E i \in ConcInv : Resume(i)
  \/ WindowElapses

SpecConc == ConcInit /\ [][ConcNext]_vars

(***************************************************************************)
(* Properties.                                                             *)
(***************************************************************************)

\* ---- C7 ----------------------------------------------------------------
HasNewlineRun3(s) ==
  \E i \in 1..(Len(s) - 2) : \A j \in i..(i + 2) : s[j] \in NewlineChars

FreeOfStrippedInput(s) ==
  /\ \A i \in DOMAIN s : s[i] \notin {"<", ">", Backtick, "$"}
  /\ ~HasNewlineRun3(s)

NoOuterWhitespace(s) == s = <<>> \/ (~IsWs(s[1]) /\ ~IsWs(s[Len(s)]))

\* C7 as stated: for every string s that holds none of < > ` $ and no run of
\* three or more consecutive newline characters, sanitizeText(s) = s.
C7_NoOpOnCleanInput ==
  (sanOut.done /\ FreeOfStrippedInput(sanIn)) => sanOut.value = sanIn

\* C7 amended: for every string s that holds none of < > ` $, no run of three
\* or more consecutive CR/LF characters and no leading or trailing whitespace,
\* sanitizeText(s) = s.
C7_NoOpOnCleanTrimmedInput ==
  (sanOut.done /\ FreeOfStrippedInput(sanIn) /\ NoOuterWhitespace(sanIn))
    => sanOut.value = sanIn

\* sanitizeText has run on a clean, trimmed string that holds two
\* consecutive newline characters, and returned it as it was
C7_Witness ==
  /\ sanOut.done
  /\ FreeOfStrippedInput(sanIn) /\ NoOuterWhitespace(sanIn)
  /\ \E i \in 1..(Len(sanIn) - 1) :
       sanIn[i] \in NewlineChars /\ sanIn[i + 1] \in NewlineChars
  /\ sanOut.value = sanIn

\* ---- C3 ----------------------------------------------------------------
\* the calls up to the k-th that were made for the k-th call's identifier
SameIdCalls(k) == {j \in 1..k : rlHist[j].id = rlHist[k].id}

\* the j-th call found no window, or found now > resetTime of the window
StartsWindow(j) ==
  rlHist[j].before = NoRecord \/ rlHist[j].t > rlHist[j].before.resetTime

\* the call that started the window the k-th call falls in
WindowStart(k) ==
  LET starts == {j \in SameIdCalls(k) : StartsWindow(j)}
  IN  CHOOSE j \in starts : \A h \in starts : h <= j

\* 1 for the call that starts a window, 2 for the next one in it, ...
IndexInWindow(k) ==
  Cardinality({j \in SameIdCalls(k) : j >= WindowStart(k)})

RateCallAsClaimed(k) ==
  LET c == rlHist[k]
  IN  /\ c.allowed <=> IndexInWindow(k) <= rlMax
      /\ StartsWindow(k) =>
           /\ c.allowed
           /\ c.after = [count |-> 1, resetTime |-> c.t + rlWin]
      /\ ~StartsWindow(k) => c.after.resetTime = c.before.resetTime
      /\ ~c.allowed => c.after = c.before /\ c.after.count <= rlMax

\* C3 as stated: for any identifier, maxRequests and windowMs, of the calls
\* made while now <= resetTime of the current window exactly the first
\* maxRequests return true and the later ones false, leaving count and
\* resetTime alone; the first call with now > resetTime returns true and
\* starts a window with count 1 and resetTime = now + windowMs.
C3_WindowCounts == \A k \in DOMAIN rlHist : RateCallAsClaimed(k)

\* C3 amended: the same, for any maxRequests >= 1.
C3_WindowCountsPositiveMax ==
  rlMax >= 1 => \A k \in DOMAIN rlHist : RateCallAsClaimed(k)

\* with maxRequests >= 1, an identifier was denied in a full window and then
\* allowed again by a later call that started a new window
C3_Witness ==
  /\ rlMax >= 1
  /\ \E k \in DOMAIN rlHist, d \in DOMAIN rlHist :
       /\ d < k /\ rlHist[d].id = rlHist[k].id
       /\ ~rlHist[d].allowed
       /\ rlHist[k].allowed /\ StartsWindow(k) /\ rlHist[k].before # NoRecord

\* ---- C4 ----------------------------------------------------------------
ValidLinkPost(post) ==
  /\ post.url # <<>> /\ validateUrl(post.url)
  /\ Len(post.tags) >= 1 /\ Len(post.tags) <= 10
  /\ \A i \in DOMAIN post.tags :
       Len(post.tags[i]) >= 1 /\ Len(post.tags[i]) <= 50
  /\ trim(post.body) # <<>>

\* C4: parse either throws or returns a fully valid LinkPost: every LinkPost
\* generateFile receives has a non-empty url that passes validateUrl, between
\* 1 and 10 tags of 1 to 50 characters each, and a body that is non-empty
\* after trimming, whatever the input lines are.
C4_OnlyValidPostsHandedOn ==
  /\ \A k \in DOMAIN handed : ValidLinkPost(handed[k])
  /\ parseOut.done =>
       IF parseOut.ok
       THEN ValidLinkPost(parseOut.data) /\ handed = <<parseOut.data>>
       ELSE parseOut.thrown.isError /\ handed = <<>>

\* parse returned a LinkPost for a text with two url lines and more than ten
\* tags, and generateFile received it with the tag list cut to ten
C4_Witness ==
  /\ parseOut.done /\ parseOut.ok
  /\ handed # <<>> /\ Len(handed[1].tags) = 10
  /\ Len(SelectSeq(split(parseIn, "\n"),
                   LAMBDA l : startsWith(l, <<"u", "r", "l">>))) = 2

\* ---- C1 ----------------------------------------------------------------
\* C1: an email whose sender fails validateEmail, differs from the allowed
\* sender, or is denied by checkRateLimit(sender, 5, 300000) ends with
\* setReject; in that invocation the parser never runs, no repository call is
\* issued and no reply, success or error, is composed or sent.
C1_RejectedBeforeProcessing ==
  \A i \in Inv :
    LET s == inv[i]
    IN  (/\ s.pc # "idle"
         /\ \/ ~validateEmail(s.from)
            \/ s.from # AllowedSender
            \/ s.rate = "denied")
        => /\ s.pc = "done" /\ s.outcome = "rejected"
           /\ s.reject \in {"Address not allowed", "Rate limit exceeded"}
           /\ ~s.parserRan
           /\ s.calls = 0 /\ s.log = <<>>
           /\ s.replies = <<>> /\ s.outbox = NoMessage

\* the allowed sender was rejected by the rate limit: five emails of the
\* window were let through before this one
C1_Witness ==
  \E i \in Inv :
    /\ inv[i].pc = "done" /\ inv[i].outcome = "rejected"
    /\ inv[i].from = AllowedSender /\ inv[i].rate = "denied"
    /\ inv[i].reject = "Rate limit exceeded"
    /\ requestCounts[AllowedSender].count = RateLimitMax

\* ---- C2 ----------------------------------------------------------------
\* C2: every invocation that passes the sender check and the rate limit ends
\* in RepliedSuccess or RepliedError with exactly one reply sent, and no error
\* leaves the email handler uncaught, whatever stage failed.
C2_EndsWithOneReply ==
  \A i \in Inv :
    (inv[i].pc = "done" /\ inv[i].outcome # "rejected")
      => /\ inv[i].outcome \in {"repliedSuccess", "repliedError"}
         /\ Len(inv[i].replies) = 1

\* ---- C5 ----------------------------------------------------------------
ErrorBodies ==
  {M_errorPrefix \o M_failedToProcess, M_errorPrefix \o M_unexpected}

\* C5: the body of an error reply does not depend on the internal error: it
\* is the fixed prefix followed by one of the two fixed messages, chosen only
\* by whether the caught value is an Error, and never holds the message of the
\* caught error or of the repository error behind it.
C5_ErrorReplyIsGeneric ==
  \A i \in Inv :
    LET s == inv[i]
    IN  /\ \A k \in DOMAIN s.replies :
             s.replies[k].kind = "error" => s.replies[k].data \in ErrorBodies
        /\ s.pc = "replyError" =>
             /\ s.outbox.kind = "error"
             /\ s.outbox.data =
                  M_errorPrefix \o (IF s.thrown.isError THEN M_failedToProcess
                                    ELSE M_unexpected)
             /\ ~includes(s.outbox.data, s.thrown.message)
             /\ s.cause # NoError => ~includes(s.outbox.data, s.cause.message)

\* an error reply is being sent for a publish that failed on a repository
\* call rejected with status 404
C5_Witness ==
  \E i \in Inv :
    /\ inv[i].pc = "replyError"
    /\ inv[i].thrown.message = E_publishFailed
    /\ inv[i].cause.status = 404
    /\ inv[i].outbox.data = M_errorPrefix \o M_failedToProcess

\* ---- C6 ----------------------------------------------------------------
WriteOps == {"createRef", "createFile", "createPull"}

WriteCalls(s) == {k \in DOMAIN s.log : s.log[k].op \in WriteOps}

PathAsClaimed(path) ==
  /\ startsWith(path, S_linksDir)
  /\ endsWith(path, <<".", "m", "d">>)
  /\ ~includes(path, <<".", ".", "/">>) /\ ~includes(path, <<".", ".", "\\">>)
  /\ Len(path) <= 200

\* C6: every repository write call (create ref, create file, create pull
\* request) is issued only with a file path that passed validateFilePath
\* (prefix content/posts/links/, suffix .md, no traversal, at most 200
\* characters) and a branch name that passed validateBranchName; when either
\* validation fails no write call is issued in that invocation.
C6_WritesOnlyWithValidatedNames ==
  \A i \in Inv :
    LET s == inv[i]
    IN  /\ \A k \in WriteCalls(s) :
             /\ PathAsClaimed(s.fileName)
             /\ s.log[k].op = "createFile" => s.log[k].path = s.fileName
             /\ validateBranchName(s.log[k].ref)
        /\ (\/ s.thrown.message \in {E_badGeneratedPath, E_invalidFilePath}
            \/ s.cause.message \in {E_badBranchName, E_noUniqueBranch})
           => WriteCalls(s) = {}

\* the three write calls have been issued for a timestamped branch name
C6_Witness ==
  \E i \in Inv :
    /\ inv[i].pc = "createPull"
    /\ inv[i].branch # inv[i].candidate
    /\ {inv[i].log[k].op : k \in WriteCalls(inv[i])} = WriteOps

\* ---- C8 ----------------------------------------------------------------
PublisherOrder == <<"getRef", "getRef", "createRef", "createFile", "createPull">>

\* C8: the publisher's calls occur in the order resolve tip, probe branch,
\* create ref, create file, open pull request; the file is created only after
\* the ref of that same branch was created, the pull request only after the
\* file was created, with that branch as head, and the ref is created at the
\* sha the first call returned.
C8_CallsInOrder ==
  \A i \in Inv :
    LET log == inv[i].log
    IN  /\ Len(log) <= Len(PublisherOrder)
        /\ \A k \in DOMAIN log : log[k].op = PublisherOrder[k]
        /\ \A k \in DOMAIN log :
             /\ log[k].op = "createRef" => log[k].sha = log[1].result
             /\ log[k].op = "createFile" =>
                  \E j \in 1..(k - 1) :
                    /\ log[j].op = "createRef" /\ log[j].ref = log[k].ref
                    /\ log[j].result = "ok"
             /\ log[k].op = "createPull" =>
                  \E j \in 1..(k - 1) :
                    /\ log[j].op = "createFile" /\ log[j].ref = log[k].ref
                    /\ log[j].result = "ok"

\* ---- C9 ----------------------------------------------------------------
\* C9: when the existence probe reports that the candidate branch exists, no
\* create-ref, create-file or open-pull-request call is ever issued for the
\* plain candidate name in that invocation, whatever the later calls return.
C9_CandidateUnusedWhenExists ==
  \A i \in Inv :
    LET s == inv[i]
    IN  (Len(s.log) >= 2 /\ s.log[2].result = "ok")
          => \A k \in WriteCalls(s) : s.log[k].ref # s.candidate

\* ---- C10 ---------------------------------------------------------------
Rejected(call) == call.result \in {"404", "422", "500"}

\* C10: create-ref, create-file and open-pull-request are each issued at most
\* once in an invocation, and a rejection of any call other than the
\* existence probe, a 404 included, ends the publish as the generic publish
\* failure with no further repository call.
C10_NoRetryAfterRejection ==
  \A i \in Inv :
    LET s == inv[i]
    IN  /\ \A op \in WriteOps :
             Cardinality({k \in DOMAIN s.log : s.log[k].op = op}) <= 1
        /\ \A k \in DOMAIN s.log :
             (Rejected(s.log[k]) /\ ~(k = 2 /\ s.log[k].result = "404"))
               => /\ k = Len(s.log)
                  /\ s.pc = "replyError"
                  /\ s.thrown = Error(E_publishFailed)

\* ---- C11 ---------------------------------------------------------------
\* the lines the loop of parse runs over: the sanitized text split at "\n"
LoopLines(body) == split(sanitizeText(body), "\n")

IsMarker(line) == toLowerCase(trim(line)) = <<"b", "o", "d", "y">>

\* index of the first marker line of lines, 0 when there is none
FirstMarker(lines) ==
  LET hits == {k \in DOMAIN lines : IsMarker(lines[k])}
  IN  IF hits = {} THEN 0 ELSE CHOOSE k \in hits : \A j \in hits : k <= j

\* the state of the loop of parse before its first line
LoopStart ==
  [isBody |-> FALSE, bodyLines |-> <<>>, url |-> <<>>, tags |-> <<>>,
   thrown |-> NoError]

\* what parse did with the lines under the marker at index m: url, tags and
\* a validation error are those of the lines above the marker alone, and the
\* body returned is made of every line under it
MarkerEndsFields(lines, m) ==
  LET pre == parseLines(LoopStart, SubSeq(lines, 1, m - 1))
      later == SubSeq(lines, m + 1, Len(lines))
  IN  IF pre.thrown # NoError THEN ~parseOut.ok /\ parseOut.thrown = pre.thrown
      ELSE /\ parseOut.thrown.message \notin {E_unsafeUrl, E_noValidTag}
           /\ parseOut.ok =>
                /\ parseOut.data.url = pre.url
                /\ parseOut.data.tags = pre.tags
                /\ parseOut.data.body =
                     sanitizeText(trim(join(later, "\n"))) \o <<"\n">>

\* C11: in parse, once the first line whose trimmed lower-cased value is
\* exactly "body" has been seen, every later line of the loop (a blank line, a
\* line starting with url or tags, a further body line) goes to the body text,
\* changes neither url nor tags and raises no url or tags validation error;
\* when the loop meets no such marker line, parse fails.
C11_MarkerEndsFields ==
  parseOut.done =>
    LET lines == LoopLines(parseIn)
        m == FirstMarker(lines)
    IN  IF m = 0 THEN ~parseOut.ok ELSE MarkerEndsFields(lines, m)

\* parse returned a LinkPost for a text with a url line that validateUrl
\* rejects under the marker
C11_Witness ==
  /\ parseOut.done /\ parseOut.ok
  /\ LET lines == LoopLines(parseIn)
         m == FirstMarker(lines)
     IN  /\ m > 0
         /\ \E k \in (m + 1)..Len(lines) :
              /\ startsWith(toLowerCase(lines[k]), <<"u", "r", "l", " ">>)
              /\ ~validateUrl(trim(SubSeq(lines[k], 5, Len(lines[k]))))

\* parse failed on a text in which the loop met no marker line although it
\* has a valid url line and a valid tags line
C11_WitnessNoMarker ==
  /\ parseOut.done /\ ~parseOut.ok
  /\ FirstMarker(LoopLines(parseIn)) = 0
  /\ parseOut.thrown = Error(E_bodyContentRequired)

\* ---- C12 ---------------------------------------------------------------
\* the clock reading at which the window of the k-th rate check started: a
\* check made later than the window length after that start opens a new one
RECURSIVE WindowOpenedAt(_)
WindowOpenedAt(k) ==
  IF k = 1 THEN rlHist[1].t
  ELSE LET opened == WindowOpenedAt(k - 1)
       IN  IF rlHist[k].t > opened + RateWindowMs THEN rlHist[k].t ELSE opened

\* the invocations let through by the first k rate checks in the window of
\* the k-th
AdmittedInWindow(k) ==
  {j \in 1..k : rlHist[j].allowed /\ WindowOpenedAt(j) = WindowOpenedAt(k)}

InFlight(i) == inv[i].pc \notin {"idle", "done"}

\* C12: however the invocations interleave, the shared rate-limit map is not
\* corrupted: between the start of a window and the moment now first exceeds
\* its resetTime at most 5 invocations of the sender get past the rate check,
\* whatever number of invocations is suspended, and the sender's record holds
\* the count of those let through and the resetTime of that window.
C12_AtMostFivePerWindow ==
  /\ \A k \in DOMAIN rlHist :
       /\ Cardinality(AdmittedInWindow(k)) <= RateLimitMax
       /\ rlHist[k].allowed <=>
            Cardinality({j \in 1..(k - 1) :
                           WindowOpenedAt(j) = WindowOpenedAt(k)}) < RateLimitMax
  /\ rlHist # <<>> =>
       requestCounts[AllowedSender] =
         [count |-> Cardinality(AdmittedInWindow(Len(rlHist))),
          resetTime |-> WindowOpenedAt(Len(rlHist)) + RateWindowMs]

\* with five invocations let through in the window and one of them still
\* suspended at a repository call, a sixth email was rejected by the rate
\* limit
C12_Witness ==
  /\ \E i \in DOMAIN inv, j \in DOMAIN inv :
       /\ inv[i].pc = "done" /\ inv[i].reject = "Rate limit exceeded"
       /\ inv[j].pc \in {"probe", "createRef", "createFile", "createPull"}
  /\ rlHist # <<>> /\ ~rlHist[Len(rlHist)].allowed
  /\ Cardinality(AdmittedInWindow(Len(rlHist))) = RateLimitMax

\* ---- C13 ---------------------------------------------------------------
\* the existence probe of s was answered with not found
ProbedAbsent(s) == Len(s.log) >= 2 /\ s.log[2].result = "404"

\* the branch names s has issued a create-ref call for
CreateRefNames(s) ==
  {s.log[k].ref : k \in {h \in DOMAIN s.log : s.log[h].op = "createRef"}}

\* C13: two invocations with the same sender, date and title never both find
\* the candidate branch missing and then both issue a create-ref call for the
\* same branch name.
C13_NoDoubleCreate ==
  \A i \in DOMAIN inv, j \in DOMAIN inv :
    (/\ i # j
     /\ inv[i].from = inv[j].from
     /\ inv[i].fileName = inv[j].fileName
     /\ ProbedAbsent(inv[i]) /\ ProbedAbsent(inv[j]))
    => CreateRefNames(inv[i]) \cap CreateRefNames(inv[j]) = {}

\* the race run to its end: the first create-ref succeeded, the second was
\* rejected because the ref exists and its invocation replies with the error
C13_RaceLost ==
  \E i \in DOMAIN inv, j \in DOMAIN inv :
    /\ i # j /\ ProbedAbsent(inv[i]) /\ ProbedAbsent(inv[j])
    /\ inv[i].log[3].ref = inv[j].log[3].ref
    /\ inv[i].log[3].result = "ok"
    /\ inv[j].log[3].result = "422"
    /\ inv[j].pc = "replyError" /\ inv[j].thrown = Error(E_publishFailed)

=============================================================================
